---------------------------- MODULE Spec2Model ----------------------------
(***************************************************************************)
(* github-artifact-download.py as a state machine.                         *)
(*                                                                         *)
(* The remote API, the local file system and the command line are the     *)
(* environment.  A listing of the remote is a finite chain of pages, each  *)
(* page the decoded JSON body of one HTTP GET plus the response's link     *)
(* header.  Python's None is the token None for optional strings, url 0    *)
(* for "no next url", and a record with id 0 for "no run / no artifact".   *)
(***************************************************************************)
EXTENDS Integers, Sequences, FiniteSets, TLC

(* ------------------------------ bounds --------------------------------- *)

\* pages of one listing
MaxPages == 2
\* records of one listing, all pages together
MaxRecords == 2
\* invocations of the program, one after the other
MaxInvocations == 2
\* chunks of one artifact's payload
MaxChunks == 2

(* --------------------------- Python values ----------------------------- *)

None == "<None>"

\* bool(s) of an optional string: None and '' are falsy
Truthy(s) == s # None /\ s # ""

NoRun == [id |-> 0, name |-> "", conclusion |-> "", head_branch |-> ""]

NoArtifact == [id |-> 0, name |-> ""]

(* ------------------------ the remote's records -------------------------- *)

RunPool ==
  { [id |-> 1, name |-> "CI",   conclusion |-> "success", head_branch |-> "main"],
    [id |-> 2, name |-> "CI",   conclusion |-> "failure", head_branch |-> "main"],
    [id |-> 3, name |-> "Lint", conclusion |-> "success", head_branch |-> "main"],
    [id |-> 4, name |-> "CI",   conclusion |-> "success", head_branch |-> "dev"] }

ArtifactPool ==
  { [id |-> 7,  name |-> "docs"],
    [id |-> 17, name |-> "docs"],
    [id |-> 70, name |-> "bin"] }

SeqsUpTo(S, n) == UNION { [1..k -> S] : k \in 0..n }

\* A page body: the JSON object holds the record list under its key, or lacks
\* the key altogether.
PagesOf(pool, n) ==
  { [key |-> TRUE, items |-> s] : s \in SeqsUpTo(pool, n) }
    \cup { [key |-> FALSE, items |-> << >>] }

\* the chains of exactly k pages that hold at most n records together
RECURSIVE Chains(_, _, _)
Chains(pool, k, n) ==
  IF k = 0 THEN { << >> }
  ELSE UNION { { << p >> \o rest : rest \in Chains(pool, k - 1, n - Len(p.items)) } :
                 p \in PagesOf(pool, n) }

\* Every chain of 1..MaxPages pages holding at most MaxRecords records.
Listings(pool) == UNION { Chains(pool, k, MaxRecords) : k \in 1..MaxPages }

\* what the remote may serve as the listing of workflow runs
RunListings == Listings(RunPool)

\* what the remote may serve as a listing of artifacts
ArtifactListings == Listings(ArtifactPool)

(* ----------------------------- variables ------------------------------- *)

VARIABLES
  call,       \* a selector called on its own: its arguments, the listing, the GET that fails
  sel,        \* the last selector call's outcome: status, GETs issued
  run,        \* what find_latest_successful_workflow_run returned
  artifact,   \* what an artifact selector returned
  pc,         \* where main is: the states of the pipeline's state machine
  args,       \* the argparse namespace of the running invocation
  environ,    \* os.environ.get('GITHUB_TOKEN')
  cacheFile,  \* the file at the cache path: [exists, data], data a string
  files,      \* the files at the destination paths: path -> [exists, data]
  dl,         \* download_file's frame: the open response and the open file
  proc,       \* the process: exit code, stdout, stderr
  inv,        \* invocations started so far
  net,        \* requests issued by the running invocation, per resource
  before,     \* cacheFile and files as the running invocation found them
  did,        \* download_file calls and cache writes of the running invocation
  prev        \* the summary of the invocation before the running one

mainVars == << pc, args, environ, cacheFile, files, dl, proc, inv, net, before, did, prev >>

vars == << call, sel, run, artifact, pc, args, environ, cacheFile, files, dl, proc, inv,
           net, before, did, prev >>

(* --------------------------- Paged Fetcher ------------------------------ *)

\* The response to the GET of page url (1-based) of a listing: body and the
\* rel values of its link header.
Response(listing, url) ==
  [ body  |-> listing[url],
    links |-> (IF url < Len(listing) THEN {"next", "last"} ELSE {})
                \cup (IF url > 1 THEN {"prev", "first"} ELSE {}),
    next  |-> url + 1 ]

\* mutant: the rel value looked for is misspelt, the next link is never found
rel_next_link_misspelt(response) ==
  IF "nxt" \in response.links THEN response.next ELSE 0

rel_next_link(response) ==
  IF "next" \in response.links THEN response.next ELSE 0

\* result.get(key, [])
GetRecords(body) == IF body.key THEN body.items ELSE << >>

(* ----------------------------- selectors -------------------------------- *)

\* mutant: `not name` for `name is None`, the empty name filters nothing
ArtifactMatches_falsy(a, name) == ~Truthy(name) \/ a.name = name

ArtifactMatches(a, name) == name = None \/ a.name = name

\* mutant: the conclusion is not looked at
RunSkipped_any_conclusion(r, name, branch) ==
  \/ (Truthy(name) /\ r.name # name)
  \/ (Truthy(branch) /\ r.head_branch # branch)

RunSkipped(r, name, branch) ==
  \/ r.conclusion # "success"
  \/ (Truthy(name) /\ r.name # name)
  \/ (Truthy(branch) /\ r.head_branch # branch)

\* the inner for loop over one page: the first artifact that matches
RECURSIVE ScanArtifacts(_, _)
ScanArtifacts(items, name) ==
  IF items = << >> THEN NoArtifact
  ELSE IF ArtifactMatches(Head(items), name) THEN Head(items)
  ELSE ScanArtifacts(Tail(items), name)

\* the inner for loop over one page: the first run that is not skipped
RECURSIVE ScanRuns(_, _, _)
ScanRuns(items, name, branch) ==
  IF items = << >> THEN NoRun
  ELSE IF ~RunSkipped(Head(items), name, branch) THEN Head(items)
  ELSE ScanRuns(Tail(items), name, branch)

\* What a selector's call comes to: it returned value (None as NoRun or
\* NoArtifact) or an exception left it, after gets GETs.
Outcome(status, value, gets) == [ status |-> status, value |-> value, gets |-> gets ]

\* get_paged consumed by an artifact selector, from page url on, gets GETs
\* issued so far.  The GET number failAt raises (0: none does).  The consumer
\* returns on the first match, and the generator is never resumed; otherwise
\* the generator reads the link header and goes on or is exhausted.
RECURSIVE PagedArtifacts(_, _, _, _, _)
PagedArtifacts(listing, name, failAt, url, gets) ==
  IF failAt = gets + 1 THEN Outcome("raised", NoArtifact, gets + 1)
  ELSE LET res == Response(listing, url)
           hit == ScanArtifacts(GetRecords(res.body), name)
           nxt == rel_next_link(res)
       IN  IF hit # NoArtifact THEN Outcome("returned", hit, gets + 1)
           ELSE IF nxt = 0 THEN Outcome("returned", NoArtifact, gets + 1)
           ELSE PagedArtifacts(listing, name, failAt, nxt, gets + 1)

\* get_paged consumed by the run selector
RECURSIVE PagedRuns(_, _, _, _, _, _)
PagedRuns(listing, name, branch, failAt, url, gets) ==
  IF failAt = gets + 1 THEN Outcome("raised", NoRun, gets + 1)
  ELSE LET res == Response(listing, url)
           hit == ScanRuns(GetRecords(res.body), name, branch)
           nxt == rel_next_link(res)
       IN  IF hit # NoRun THEN Outcome("returned", hit, gets + 1)
           ELSE IF nxt = 0 THEN Outcome("returned", NoRun, gets + 1)
           ELSE PagedRuns(listing, name, branch, failAt, nxt, gets + 1)

\* mutant: the pages are all fetched before the first is scanned
find_latest_repo_artifact_eager(listing, name, failAt) ==
  LET o == PagedArtifacts(listing, name, failAt, 1, 0)
  IN  IF o.status = "raised" THEN o ELSE [ o EXCEPT !.gets = Len(listing) ]

\* the listing is what the remote serves under the url the selector builds
find_latest_repo_artifact(listing, name, failAt) ==
  PagedArtifacts(listing, name, failAt, 1, 0)

find_latest_successful_workflow_run(listing, name, branch, failAt) ==
  PagedRuns(listing, name, branch, failAt, 1, 0)

find_workflow_run_artifact(listing, run_id, name, failAt) ==
  PagedArtifacts(listing, name, failAt, 1, 0)

NoCall ==
  [ fn |-> "", name |-> None, branch |-> None, run_id |-> 0, listing |-> << >>,
    failAt |-> 0 ]

NoOutcome == [ fn |-> "", status |-> "none", gets |-> 0 ]

(* ------------------------------ strings --------------------------------- *)

\* A string of a file is a sequence of characters.
Digits == << "0", "1", "2", "3", "4", "5", "6", "7", "8", "9" >>

\* str(n) of an int n >= 0: its decimal digits, no sign, no leading zero
RECURSIVE Str(_)
Str(n) ==
  IF n < 10 THEN << Digits[n + 1] >>
  ELSE Str(n \div 10) \o << Digits[(n % 10) + 1] >>

\* mutant: the text read is stripped of a trailing newline
read_text_strip(data) ==
  IF data # << >> /\ data[Len(data)] \in {"\n", "\r"} THEN SubSeq(data, 1, Len(data) - 1)
  ELSE data

\* what a text-mode read makes of a file's characters: universal newlines,
\* "\r\n" and a lone "\r" are read as "\n"
RECURSIVE read_text(_)
read_text(data) ==
  IF data = << >> THEN << >>
  ELSE IF Head(data) = "\r"
       THEN << "\n" >> \o
            read_text(IF Len(data) > 1 /\ data[2] = "\n" THEN Tail(Tail(data))
                      ELSE Tail(data))
       ELSE << Head(data) >> \o read_text(Tail(data))

(* ------------------------- files and payloads --------------------------- *)

Absent == [exists |-> FALSE, data |-> << >>]

File(data) == [exists |-> TRUE, data |-> data]

CachePath == "cache.txt"

\* name + '.zip'
ZipName(name) ==
  CASE name = "docs" -> "docs.zip"
    [] name = "bin"  -> "bin.zip"
    [] OTHER         -> "artifact.zip"

DestPaths == { "out.zip", "docs.zip", "bin.zip", "artifact.zip" }

\* the cache file as the first invocation may find it
InitialCaches ==
  { Absent, File(<< >>), File(<< "7" >>), File(<< "0", "7" >>), File(<< "7", "\n" >>) }

\* chunks of the payload the remote serves for the artifact
NChunks(id) == IF id = 7 THEN 1 ELSE MaxChunks

Payload(id) == [ i \in 1..NChunks(id) |-> << id, i >> ]

(* ------------------------------- main ----------------------------------- *)

\* The command lines.  The same command line is run again and again in the
\* same environment, so the namespace and GITHUB_TOKEN are the same in every
\* invocation.  The two flags that main reads
\* in one place each are drawn where they are read: args.verbose when
\* download_file is called with it, args.traceback in the except clause.
CommandLine(w, b, a, f, c) ==
  [ token |-> "tok", workflow |-> w, branch |-> b, artifact |-> a, filename |-> f,
    cache_file |-> c ]

\* the command line without --token, or with an empty one
WithToken(cl, t) == [ cl EXCEPT !.token = t ]

Args ==
  { WithToken(CommandLine(None, None, None, None, None), None),
    WithToken(CommandLine(None, None, None, None, None), ""),
    WithToken(CommandLine("CI", None, None, None, CachePath), None),
    CommandLine(None, None, None,   None,      None),
    CommandLine(None, None, None,   None,      CachePath),
    CommandLine(None, None, "docs", "out.zip", CachePath),
    CommandLine("CI", None, None,   None,      CachePath),
    CommandLine("CI", "main", "docs", "out.zip", CachePath),
    CommandLine("CI", "main", "docs", None,    None),
    CommandLine("",   "main", None,   None,    "") }

\* GITHUB_TOKEN as the environment of a command line may hold it: unset, empty
\* or a token; the command lines that give --token and more are run without it
Environ(cl) ==
  IF ~Truthy(cl.token) \/ cl = CommandLine(None, None, None, None, None)
  THEN {None, "", "tok"}
  ELSE {None}

NoArgs ==
  [ token |-> None, workflow |-> None, branch |-> None, artifact |-> None, filename |-> None,
    cache_file |-> None ]

Terminal == { "NOT_FOUND", "HIT", "FAIL", "DONE" }

Running == [ exit |-> -1, stdout |-> None, stderr |-> None, error |-> None ]

NoDownload ==
  [ filename |-> None, verbose |-> FALSE, stage |-> "none", stream |-> << >>,
    markers |-> 0 ]

\* calls of the selectors and urlopen calls of download_file
NoRequests == [ runs |-> 0, artifacts |-> 0, run_artifacts |-> 0, download |-> 0 ]

Nothing == [ downloads |-> 0, writes |-> 0 ]

NoSummary ==
  [ id |-> 0, outcome |-> None, error |-> None, downloads |-> 0, writes |-> 0,
    held |-> FALSE ]

\* what is kept of a finished invocation: the artifact it resolved, how it
\* ended, what it did, and whether the cache file it found held the
\* artifact's identifier
Summary ==
  [ id |-> artifact.id, outcome |-> pc, error |-> proc.error,
    downloads |-> did.downloads, writes |-> did.writes,
    held |-> before.cache.exists /\ read_text(before.cache.data) = Str(artifact.id) ]

\* main returns: the process prints what main printed and exits with 0
Return(outcome, printed) ==
  /\ pc' = outcome
  /\ proc' = [ exit |-> 0, stdout |-> printed, stderr |-> None, error |-> None ]

\* mutant: the except clause prints the one line and falls off the end, the
\* sys.exit(1) is missing
Raise_no_exit(outcome, error) ==
  /\ pc' = outcome
  /\ \E traceback \in BOOLEAN :
       proc' = [ exit |-> IF traceback THEN 1 ELSE 0, stdout |-> None,
                 stderr |-> IF traceback THEN "Traceback" ELSE "Error: %s",
                 error |-> error ]

\* main raises: the except clause of __main__ prints the one line and exits
\* with 1, or raises again, and the interpreter prints the traceback and exits
\* with 1
Raise(outcome, error) ==
  /\ pc' = outcome
  /\ \E traceback \in BOOLEAN :
       proc' = [ exit |-> 1, stdout |-> None,
                 stderr |-> IF traceback THEN "Traceback" ELSE "Error: %s",
                 error |-> error ]

\* mutant: the environment lookup has a default
Token_default(token, env) ==
  IF Truthy(token) THEN token ELSE IF env = None THEN "tok" ELSE env

\* args.token or os.environ.get('GITHUB_TOKEN')
Token(token, env) == IF Truthy(token) THEN token ELSE env

\* Every outcome the run selector can have for the arguments main passes,
\* over all listings the remote may serve and all GETs that may fail.
RunOutcomes ==
  [ a \in { x \in Args : Truthy(x.workflow) } |->
      { find_latest_successful_workflow_run(l, a.workflow, a.branch, failAt) :
          l \in RunListings, failAt \in 0..MaxPages } ]

\* the same for the artifact selector of a run, which main calls with run['id']
RunArtifactOutcomes ==
  [ a \in { x \in Args : Truthy(x.workflow) } |->
      [ r \in RunPool |->
          { find_workflow_run_artifact(l, r.id, a.artifact, failAt) :
              l \in ArtifactListings, failAt \in 0..MaxPages } ] ]

\* the same for the artifact selector of the repository
RepoArtifactOutcomes ==
  [ a \in { x \in Args : ~Truthy(x.workflow) } |->
      { find_latest_repo_artifact(l, a.artifact, failAt) :
          l \in ArtifactListings, failAt \in 0..MaxPages } ]

\* a process starts main(args), the invocations before it being fewer than
\* limit: the token check and the branch on args.workflow
invoke_main(limit) ==
  /\ pc = "START" \/ (pc \in Terminal /\ inv < limit)
  /\ inv' = inv + 1
  /\ prev' = IF pc = "START" THEN NoSummary ELSE Summary
  /\ before' = [ cache |-> cacheFile, files |-> files ]
  /\ run' = NoRun
  /\ artifact' = NoArtifact
  /\ dl' = NoDownload
  /\ net' = NoRequests
  /\ did' = Nothing
  /\ UNCHANGED << call, sel, args, environ, cacheFile, files >>
  /\ IF ~Truthy(Token(args.token, environ))
     THEN Raise("FAIL", "Please specify a GitHub personal access token")
     ELSE /\ pc' = IF Truthy(args.workflow) THEN "RESOLVE_RUN" ELSE "RESOLVE_ARTIFACT"
          /\ proc' = Running

main_start == invoke_main(MaxInvocations)

\* main calls the run selector and gets its result
resolve_run ==
  /\ pc = "RESOLVE_RUN"
  /\ UNCHANGED << call, sel, artifact, args, environ, cacheFile, files, dl, inv, before, did, prev >>
  /\ net' = [ net EXCEPT !.runs = @ + 1 ]
  /\ \E o \in RunOutcomes[args] :
       IF o.status = "raised"
       THEN Raise("FAIL", "URLError") /\ UNCHANGED run
       ELSE IF o.value = NoRun
       THEN Raise("NOT_FOUND", "No successful workflow run found") /\ UNCHANGED run
       ELSE /\ run' = o.value
            /\ pc' = "RESOLVE_ARTIFACT"
            /\ UNCHANGED proc

\* mutant: a run without the artifact sends main back to the run listing
resolve_artifact_next_run ==
  /\ pc = "RESOLVE_ARTIFACT"
  /\ UNCHANGED << call, sel, run, args, environ, cacheFile, files, dl, inv, before, did, prev >>
  /\ net' = IF Truthy(args.workflow)
            THEN [ net EXCEPT !.run_artifacts = @ + 1 ]
            ELSE [ net EXCEPT !.artifacts = @ + 1 ]
  /\ \E o \in IF Truthy(args.workflow) THEN RunArtifactOutcomes[args][run]
                ELSE RepoArtifactOutcomes[args] :
       IF o.status = "raised"
       THEN Raise("FAIL", "URLError") /\ UNCHANGED artifact
       ELSE IF o.value = NoArtifact /\ Truthy(args.workflow)
       THEN pc' = "RESOLVE_RUN" /\ UNCHANGED << artifact, proc >>
       ELSE IF o.value = NoArtifact
       THEN Raise("NOT_FOUND", "Artifact not found!") /\ UNCHANGED artifact
       ELSE /\ artifact' = o.value
            /\ pc' = "CHECK_CACHE"
            /\ UNCHANGED proc

\* main calls an artifact selector, of the run or of the repository, and gets
\* its result
resolve_artifact ==
  /\ pc = "RESOLVE_ARTIFACT"
  /\ UNCHANGED << call, sel, run, args, environ, cacheFile, files, dl, inv, before, did, prev >>
  /\ net' = IF Truthy(args.workflow)
            THEN [ net EXCEPT !.run_artifacts = @ + 1 ]
            ELSE [ net EXCEPT !.artifacts = @ + 1 ]
  /\ \E o \in IF Truthy(args.workflow) THEN RunArtifactOutcomes[args][run]
                ELSE RepoArtifactOutcomes[args] :
       IF o.status = "raised"
       THEN Raise("FAIL", "URLError") /\ UNCHANGED artifact
       ELSE IF o.value = NoArtifact
       THEN Raise("NOT_FOUND", "Artifact not found!") /\ UNCHANGED artifact
       ELSE /\ artifact' = o.value
            /\ pc' = "CHECK_CACHE"
            /\ UNCHANGED proc

\* mutant: any existing cache file skips the download
should_skip_exists ==
  /\ Truthy(args.cache_file)
  /\ cacheFile.exists

\* cache_file and cache_file.exists() and cache_file.read_text() == str(artifact['id'])
should_skip ==
  /\ Truthy(args.cache_file)
  /\ cacheFile.exists
  /\ read_text(cacheFile.data) = Str(artifact.id)

\* args.filename or (artifact.get('name', 'artifact') + '.zip')
Filename ==
  IF Truthy(args.filename) THEN args.filename ELSE ZipName(artifact.name)

\* mutant: the identifier is recorded before download_file is called
check_cache_record_first ==
  /\ pc = "CHECK_CACHE"
  /\ UNCHANGED << call, sel, run, artifact, args, environ, files, inv, net, before, prev >>
  /\ IF should_skip
     THEN Return("HIT", None) /\ UNCHANGED << dl, did, cacheFile >>
     ELSE /\ pc' = "DOWNLOAD"
          /\ \E verbose \in BOOLEAN :
               dl' = [ filename |-> Filename, verbose |-> verbose,
                       stage |-> "call", stream |-> << >>, markers |-> 0 ]
          /\ cacheFile' = IF Truthy(args.cache_file) THEN File(Str(artifact.id))
                          ELSE cacheFile
          /\ did' = [ downloads |-> did.downloads + 1,
                      writes |-> did.writes + (IF Truthy(args.cache_file) THEN 1 ELSE 0) ]
          /\ UNCHANGED proc

\* mutant: a hit writes the identifier again
check_cache_rewrite ==
  /\ pc = "CHECK_CACHE"
  /\ UNCHANGED << call, sel, run, artifact, args, environ, files, inv, net, before, prev >>
  /\ IF should_skip
     THEN /\ Return("HIT", None)
          /\ cacheFile' = File(Str(artifact.id))
          /\ did' = [ did EXCEPT !.writes = @ + 1 ]
          /\ UNCHANGED dl
     ELSE /\ pc' = "DOWNLOAD"
          /\ \E verbose \in BOOLEAN :
               dl' = [ filename |-> Filename, verbose |-> verbose,
                       stage |-> "call", stream |-> << >>, markers |-> 0 ]
          /\ did' = [ did EXCEPT !.downloads = @ + 1 ]
          /\ UNCHANGED << proc, cacheFile >>

\* the cache check: return on a hit, call download_file on a miss
check_cache ==
  /\ pc = "CHECK_CACHE"
  /\ UNCHANGED << call, sel, run, artifact, args, environ, cacheFile, files, inv, net, before, prev >>
  /\ IF should_skip
     THEN Return("HIT", None) /\ UNCHANGED << dl, did >>
     ELSE /\ pc' = "DOWNLOAD"
          /\ \E verbose \in BOOLEAN :
               dl' = [ filename |-> Filename, verbose |-> verbose,
                       stage |-> "call", stream |-> << >>, markers |-> 0 ]
          /\ did' = [ did EXCEPT !.downloads = @ + 1 ]
          /\ UNCHANGED proc

\* mutant: the with statement opens the file first and the url second
download_open_file_first ==
  /\ pc = "DOWNLOAD"
  /\ dl.stage = "call"
  /\ UNCHANGED << call, sel, run, artifact, args, environ, cacheFile, inv, before, did, prev >>
  /\ \/ /\ Raise("FAIL", "OSError")
        /\ UNCHANGED << files, dl, net >>
     \/ /\ Raise("FAIL", "URLError")
        /\ net' = [ net EXCEPT !.download = @ + 1 ]
        /\ files' = [ files EXCEPT ![dl.filename] = File(<< >>) ]
        /\ UNCHANGED dl
     \/ /\ net' = [ net EXCEPT !.download = @ + 1 ]
        /\ files' = [ files EXCEPT ![dl.filename] = File(<< >>) ]
        /\ dl' = [ dl EXCEPT !.stage = "copy", !.stream = Payload(artifact.id) ]
        /\ UNCHANGED << pc, proc >>

\* mutant: the file is opened 'ab', what it held stays
download_open_append ==
  /\ pc = "DOWNLOAD"
  /\ dl.stage = "call"
  /\ net' = [ net EXCEPT !.download = @ + 1 ]
  /\ UNCHANGED << call, sel, run, artifact, args, environ, cacheFile, inv, before, did, prev >>
  /\ \/ Raise("FAIL", "URLError") /\ UNCHANGED << files, dl >>
     \/ Raise("FAIL", "OSError") /\ UNCHANGED << files, dl >>
     \/ /\ files' = [ files EXCEPT ![dl.filename] = File(@.data) ]
        /\ dl' = [ dl EXCEPT !.stage = "copy", !.stream = Payload(artifact.id) ]
        /\ UNCHANGED << pc, proc >>

\* download_file's with statement: urlopen the url, then open the file 'wb'
download_open ==
  /\ pc = "DOWNLOAD"
  /\ dl.stage = "call"
  /\ net' = [ net EXCEPT !.download = @ + 1 ]
  /\ UNCHANGED << call, sel, run, artifact, args, environ, cacheFile, inv, before, did, prev >>
  /\ \/ Raise("FAIL", "URLError") /\ UNCHANGED << files, dl >>
     \/ Raise("FAIL", "OSError") /\ UNCHANGED << files, dl >>
     \/ /\ files' = [ files EXCEPT ![dl.filename] = File(<< >>) ]
        /\ dl' = [ dl EXCEPT !.stage = "copy", !.stream = Payload(artifact.id) ]
        /\ UNCHANGED << pc, proc >>

\* res.read raises: the turn ends before the marker is printed
read_fails ==
  /\ Raise("FAIL", "URLError")
  /\ UNCHANGED dl

\* out.write raises, or the flush when the file is closed after the loop: the
\* chunk is read and the turn's marker printed
write_fails ==
  /\ Raise("FAIL", "OSError")
  /\ dl' = [ dl EXCEPT
               !.markers = IF dl.verbose THEN @ + 1 ELSE @,
               !.stream  = IF dl.stream = << >> THEN << >> ELSE Tail(@) ]

\* mutant: the marker is printed after the check for the empty chunk
copy_turn_marker_per_chunk ==
  /\ dl' = [ dl EXCEPT
               !.markers = IF dl.verbose /\ dl.stream # << >> THEN @ + 1 ELSE @,
               !.stream  = IF dl.stream = << >> THEN << >> ELSE Tail(@),
               !.stage   = IF dl.stream = << >> THEN "closed" ELSE @ ]
  /\ files' = IF dl.stream = << >> THEN files
              ELSE [ files EXCEPT ![dl.filename].data = Append(@, Head(dl.stream)) ]
  /\ pc' = IF dl.stream = << >> THEN "RECORD_CACHE" ELSE pc
  /\ UNCHANGED proc

\* a turn without an exception: read, print the marker, break on the empty
\* chunk or write the chunk
copy_turn ==
  /\ dl' = [ dl EXCEPT
               !.markers = IF dl.verbose THEN @ + 1 ELSE @,
               !.stream  = IF dl.stream = << >> THEN << >> ELSE Tail(@),
               !.stage   = IF dl.stream = << >> THEN "closed" ELSE @ ]
  /\ files' = IF dl.stream = << >> THEN files
              ELSE [ files EXCEPT ![dl.filename].data = Append(@, Head(dl.stream)) ]
  /\ pc' = IF dl.stream = << >> THEN "RECORD_CACHE" ELSE pc
  /\ UNCHANGED proc

\* mutant: the identifier is recorded in a finally clause, also when the
\* copy fails
download_chunk_record_anyway ==
  /\ pc = "DOWNLOAD"
  /\ dl.stage = "copy"
  /\ UNCHANGED << call, sel, run, artifact, args, environ, inv, net, before, prev >>
  /\ \/ /\ read_fails \/ write_fails
        /\ cacheFile' = IF Truthy(args.cache_file) THEN File(Str(artifact.id))
                        ELSE cacheFile
        /\ did' = [ did EXCEPT !.writes = @ + (IF Truthy(args.cache_file) THEN 1 ELSE 0) ]
        /\ UNCHANGED files
     \/ copy_turn /\ UNCHANGED << cacheFile, did >>

\* mutant: a failed copy removes the file it was writing
download_chunk_unlink ==
  /\ pc = "DOWNLOAD"
  /\ dl.stage = "copy"
  /\ UNCHANGED << call, sel, run, artifact, args, environ, cacheFile, inv, net, before, did, prev >>
  /\ \/ /\ read_fails \/ write_fails
        /\ files' = [ files EXCEPT ![dl.filename] = Absent ]
     \/ copy_turn

\* mutant: the break on the empty chunk is missing, the loop reads on at the
\* end of the stream
download_chunk_no_break ==
  /\ pc = "DOWNLOAD"
  /\ dl.stage = "copy"
  /\ UNCHANGED << call, sel, run, artifact, args, environ, cacheFile, inv, net, before, did, prev >>
  /\ \/ read_fails /\ UNCHANGED files
     \/ write_fails /\ UNCHANGED files
     \/ /\ dl.stream # << >>
        /\ copy_turn
     \/ /\ dl.stream = << >>
        /\ dl' = [ dl EXCEPT !.markers = IF dl.verbose THEN @ + 1 ELSE @ ]
        /\ UNCHANGED << files, pc, proc >>

\* one turn of download_file's loop: read, print the marker, stop or write
download_chunk ==
  /\ pc = "DOWNLOAD"
  /\ dl.stage = "copy"
  /\ UNCHANGED << call, sel, run, artifact, args, environ, cacheFile, inv, net, before, did, prev >>
  /\ \/ read_fails /\ UNCHANGED files
     \/ write_fails /\ UNCHANGED files
     \/ copy_turn

\* mutant: a failure of the write is swallowed
record_cache_swallow ==
  /\ pc = "RECORD_CACHE"
  /\ UNCHANGED << call, sel, run, artifact, args, environ, files, dl, inv, net, before, prev >>
  /\ Return("DONE", dl.filename)
  /\ IF Truthy(args.cache_file)
     THEN \/ /\ cacheFile' = File(Str(artifact.id))
             /\ did' = [ did EXCEPT !.writes = @ + 1 ]
          \/ UNCHANGED << cacheFile, did >>
     ELSE UNCHANGED << cacheFile, did >>

\* mutant: the identifier is never recorded
record_cache_never ==
  /\ pc = "RECORD_CACHE"
  /\ UNCHANGED << call, sel, run, artifact, args, environ, files, dl, inv, net, before, prev >>
  /\ Return("DONE", dl.filename)
  /\ UNCHANGED << cacheFile, did >>

\* after download_file: write the cache file, print the path, return
record_cache ==
  /\ pc = "RECORD_CACHE"
  /\ UNCHANGED << call, sel, run, artifact, args, environ, files, dl, inv, net, before, prev >>
  /\ IF Truthy(args.cache_file)
     THEN \/ /\ cacheFile' = File(Str(artifact.id))
             /\ did' = [ did EXCEPT !.writes = @ + 1 ]
             /\ Return("DONE", dl.filename)
          \/ Raise("FAIL", "OSError") /\ UNCHANGED << cacheFile, did >>
     ELSE Return("DONE", dl.filename) /\ UNCHANGED << cacheFile, did >>

Init ==
  /\ pc = "START"
  /\ args \in Args
  /\ environ \in Environ(args)
  /\ call = NoCall
  /\ sel = NoOutcome
  /\ run = NoRun
  /\ artifact = NoArtifact
  /\ cacheFile \in InitialCaches
  /\ files = [ p \in DestPaths |-> Absent ]
  /\ dl = NoDownload
  /\ proc = Running
  /\ inv = 0
  /\ net = NoRequests
  /\ before = [ cache |-> cacheFile, files |-> files ]
  /\ did = Nothing
  /\ prev = NoSummary

Next ==
  \/ main_start
  \/ resolve_run
  \/ resolve_artifact
  \/ check_cache
  \/ download_open
  \/ download_chunk
  \/ record_cache

Spec == Init /\ [][Next]_vars

\* The steps of a started invocation.  The process is one thread that runs
\* main to its return or its exception, every call of it returns or raises:
\* a step of main that can be taken is taken.  Nothing makes anybody start
\* the program again.
main_steps ==
  \/ resolve_run
  \/ resolve_artifact
  \/ check_cache
  \/ download_open
  \/ download_chunk
  \/ record_cache

\* every command line and environment, the cache file not there yet
InitNoCache == Init /\ cacheFile = Absent

FairSpec == InitNoCache /\ [][Next]_vars /\ WF_vars(main_steps)

(* ------ one cache path and one destination path, from a fresh start ------ *)

\* the command lines that name the cache file and the destination file
ArgsOnePath == { cl \in Args : Truthy(cl.token) /\ Truthy(cl.cache_file) /\ Truthy(cl.filename) }

\* neither the cache file nor a destination file is there
InitFresh ==
  /\ pc = "START"
  /\ args \in ArgsOnePath
  /\ environ = None
  /\ call = NoCall
  /\ sel = NoOutcome
  /\ run = NoRun
  /\ artifact = NoArtifact
  /\ cacheFile = Absent
  /\ files = [ p \in DestPaths |-> Absent ]
  /\ dl = NoDownload
  /\ proc = Running
  /\ inv = 0
  /\ net = NoRequests
  /\ before = [ cache |-> cacheFile, files |-> files ]
  /\ did = Nothing
  /\ prev = NoSummary

\* the program is run once more than in Spec
main_start_again == invoke_main(MaxInvocations + 1)

NextFresh ==
  \/ main_start_again
  \/ resolve_run
  \/ resolve_artifact
  \/ check_cache
  \/ download_open
  \/ download_chunk
  \/ record_cache

SpecFresh == InitFresh /\ [][NextFresh]_vars

(* --------- the selectors called on their own, on every input ------------ *)

Names == {None, "", "CI", "Lint"}

Branches == {None, "", "main", "dev"}

ArtifactNames == {None, "", "docs", "bin"}

Called(fn, name, branch, run_id, listing, failAt) ==
  [ fn |-> fn, name |-> name, branch |-> branch, run_id |-> run_id,
    listing |-> listing, failAt |-> failAt ]

InitSel ==
  /\ pc = "START"
  /\ args = NoArgs
  /\ environ = None
  /\ cacheFile = Absent
  /\ files = [ p \in DestPaths |-> Absent ]
  /\ dl = NoDownload
  /\ proc = Running
  /\ inv = 0
  /\ net = NoRequests
  /\ before = [ cache |-> cacheFile, files |-> files ]
  /\ did = Nothing
  /\ prev = NoSummary
  /\ sel = NoOutcome
  /\ run = NoRun
  /\ artifact = NoArtifact
  /\ \E f \in 0..MaxPages :
       \/ \E n \in Names, b \in Branches, l \in RunListings :
            call = Called("find_latest_successful_workflow_run", n, b, 0, l, f)
       \/ \E n \in ArtifactNames, l \in ArtifactListings :
            call = Called("find_latest_repo_artifact", n, None, 0, l, f)
       \/ \E n \in ArtifactNames, l \in ArtifactListings, r \in RunPool :
            call = Called("find_workflow_run_artifact", n, None, r.id, l, f)

Finished(fn, o) == [ fn |-> fn, status |-> o.status, gets |-> o.gets ]

call_find_latest_repo_artifact ==
  /\ call.fn = "find_latest_repo_artifact"
  /\ sel = NoOutcome
  /\ LET o == find_latest_repo_artifact(call.listing, call.name, call.failAt)
     IN  sel' = Finished(call.fn, o) /\ artifact' = o.value
  /\ UNCHANGED << call, run, mainVars >>

call_find_latest_successful_workflow_run ==
  /\ call.fn = "find_latest_successful_workflow_run"
  /\ sel = NoOutcome
  /\ LET o == find_latest_successful_workflow_run(call.listing, call.name,
                                                  call.branch, call.failAt)
     IN  sel' = Finished(call.fn, o) /\ run' = o.value
  /\ UNCHANGED << call, artifact, mainVars >>

call_find_workflow_run_artifact ==
  /\ call.fn = "find_workflow_run_artifact"
  /\ sel = NoOutcome
  /\ LET o == find_workflow_run_artifact(call.listing, call.run_id, call.name,
                                         call.failAt)
     IN  sel' = Finished(call.fn, o) /\ artifact' = o.value
  /\ UNCHANGED << call, run, mainVars >>

NextSel ==
  \/ call_find_latest_repo_artifact
  \/ call_find_latest_successful_workflow_run
  \/ call_find_workflow_run_artifact

SpecSel == InitSel /\ [][NextSel]_vars

(* ---------------------- reference notions for claims -------------------- *)

\* the records of all pages of a listing, in page order, as one sequence
RECURSIVE Flatten(_)
Flatten(listing) ==
  IF listing = << >> THEN << >>
  ELSE GetRecords(Head(listing)) \o Flatten(Tail(listing))

\* the selection predicate sections 4.2 and 4.3 state
RunWanted(r, name, branch) ==
  /\ r.conclusion = "success"
  /\ (~Truthy(name) \/ r.name = name)
  /\ (~Truthy(branch) \/ r.head_branch = branch)

ArtifactWanted(a, name) == name = None \/ a.name = name

Wanted(r) ==
  IF call.fn = "find_latest_successful_workflow_run"
  THEN RunWanted(r, call.name, call.branch)
  ELSE ArtifactWanted(r, call.name)

\* pages of the current listing that hold a wanted record
MatchPages ==
  { k \in 1..Len(call.listing) :
      \E i \in 1..Len(GetRecords(call.listing[k])) : Wanted(GetRecords(call.listing[k])[i]) }

FirstMatchPage == CHOOSE k \in MatchPages : \A j \in MatchPages : k <= j

Returned == sel.status = "returned"

IsRunSel == call.fn = "find_latest_successful_workflow_run"

IsArtifactSel == call.fn \in {"find_latest_repo_artifact", "find_workflow_run_artifact"}

\* r is the first wanted record of the sequence flat
FirstWanted(flat, r) ==
  \E i \in 1..Len(flat) :
    /\ flat[i] = r
    /\ Wanted(flat[i])
    /\ \A j \in 1..(i - 1) : ~Wanted(flat[j])

(* -------------------------------- C5 ------------------------------------ *)

\* C5: pagination is lazy with early stop.  A selector never has issued more
\* GETs than the number of the first page holding a match; when it returns
\* after a match on page k it has issued exactly k GETs (page k+1 is never
\* requested, whatever the link header of page k says); when it returns
\* without a match it has issued one GET per page of the listing.
C5_LazyPagination ==
  /\ MatchPages # {} => sel.gets <= FirstMatchPage
  /\ sel.gets <= Len(call.listing)
  /\ Returned /\ MatchPages # {} => sel.gets = FirstMatchPage
  /\ Returned /\ MatchPages = {} => sel.gets = Len(call.listing)

\* a selector returned a match of page 1 while page 1 advertised a next page
C5_Witness ==
  /\ Returned
  /\ MatchPages # {}
  /\ sel.gets = 1
  /\ "next" \in Response(call.listing, 1).links

(* -------------------------------- C6 ------------------------------------ *)

\* C6: the run selector returns the first record, in page order, that has
\* conclusion success and the wanted name and branch (each when set), and
\* returns None exactly when no record of any page is such a record; it
\* never returns a run whose conclusion is not success.
C6_RunSelector ==
  IsRunSel /\ Returned =>
    /\ run # NoRun => run.conclusion = "success"
    /\ run # NoRun => FirstWanted(Flatten(call.listing), run)
    /\ run = NoRun <=>
         \A i \in 1..Len(Flatten(call.listing)) :
           ~RunWanted(Flatten(call.listing)[i], call.name, call.branch)

\* the run selector returned a run of page 2 after skipping a failed run of
\* the wanted workflow
C6_Witness ==
  /\ IsRunSel /\ Returned
  /\ run # NoRun
  /\ sel.gets = 2
  /\ call.name = "CI"
  /\ \E i \in 1..Len(Flatten(call.listing)) :
       /\ Flatten(call.listing)[i].conclusion = "failure"
       /\ Flatten(call.listing)[i].name = "CI"

(* -------------------------------- C7 ------------------------------------ *)

\* C7: an artifact selector called with a name filter returns only an
\* artifact of that name; called without a filter it returns the first record
\* of the first non-empty page; it returns None exactly when no record of any
\* page matches.
C7_ArtifactSelector ==
  IsArtifactSel /\ Returned =>
    /\ call.name # None /\ artifact # NoArtifact => artifact.name = call.name
    /\ call.name = None /\ Flatten(call.listing) # << >> =>
         artifact = Flatten(call.listing)[1]
    /\ artifact # NoArtifact => FirstWanted(Flatten(call.listing), artifact)
    /\ artifact = NoArtifact <=>
         \A i \in 1..Len(Flatten(call.listing)) :
           ~ArtifactWanted(Flatten(call.listing)[i], call.name)

\* an artifact selector with a name filter returned an artifact that is not
\* the first record of the listing
C7_Witness ==
  /\ IsArtifactSel /\ Returned
  /\ call.name = "docs"
  /\ artifact # NoArtifact
  /\ Flatten(call.listing)[1] # artifact

(* -------------------------------- C8 ------------------------------------ *)

\* C8: pagination is transparent to selection.  Whatever the split of the
\* records into pages, a selector returns what the scan of the one
\* concatenated sequence returns.
C8_PaginationTransparent ==
  Returned =>
    /\ IsRunSel => run = ScanRuns(Flatten(call.listing), call.name, call.branch)
    /\ IsArtifactSel => artifact = ScanArtifacts(Flatten(call.listing), call.name)

\* a selector returned a match found on the second page, behind a page that
\* lacks the record list key
C8_Witness ==
  /\ Returned
  /\ Len(call.listing) = 2
  /\ ~call.listing[1].key
  /\ (IsRunSel => run # NoRun)
  /\ (IsArtifactSel => artifact # NoArtifact)

(* ----------------- reference notions, the whole pipeline ---------------- *)

\* the running invocation was given a cache path
CachePathSupplied == Truthy(args.cache_file)

\* the cache file's content is, character for character, str(artifact['id'])
CacheHoldsId == cacheFile.exists /\ cacheFile.data = Str(artifact.id)

\* the invocation before the running one downloaded an artifact and recorded it
PrevRecorded == prev.outcome = "DONE" /\ prev.writes = 1

(* -------------------------------- C1 ------------------------------------ *)

\* C1: across the invocations of one command line with a cache path, the
\* cache file touched by nobody else: an invocation that skipped the download
\* found the resolved artifact's identifier in the cache file; an invocation
\* that is downloading, or has downloaded and not yet recorded, resolved an
\* artifact whose identifier is not the one in the cache file; and an
\* invocation that resolves the artifact the one before it recorded calls
\* download_file not once.
C1_CacheGuard ==
  /\ pc = "HIT" => CacheHoldsId
  /\ CachePathSupplied /\ pc \in {"DOWNLOAD", "RECORD_CACHE"} => ~CacheHoldsId
  /\ CachePathSupplied /\ PrevRecorded /\ artifact # NoArtifact /\ artifact.id = prev.id =>
       did.downloads = 0 /\ pc \in {"CHECK_CACHE", "HIT"}

\* the second invocation skips the artifact the first one downloaded and
\* recorded
C1_Witness ==
  /\ pc = "HIT"
  /\ inv = 2
  /\ PrevRecorded
  /\ prev.id = artifact.id

(* -------------------------------- C2 ------------------------------------ *)

\* two invocations in succession, both given the cache path, both resolved the
\* same artifact, the second has ended, no network call of either failed
TwoRuns ==
  /\ inv >= 2
  /\ pc \in Terminal
  /\ CachePathSupplied
  /\ artifact # NoArtifact
  /\ prev.id = artifact.id
  /\ prev.error # "URLError"
  /\ proc.error # "URLError"

\* one download and one cache write in total: the first run downloads and
\* records, the second does neither
OneDownloadOneWrite ==
  /\ prev.downloads + did.downloads = 1
  /\ prev.writes + did.writes = 1
  /\ prev.outcome = "DONE" /\ prev.downloads = 1 /\ prev.writes = 1
  /\ pc = "HIT" /\ did.downloads = 0 /\ did.writes = 0

\* C2 as stated: two runs in succession with the same cache path, the
\* resolved artifact unchanged and every network call succeeding, perform
\* exactly one download and one cache write, the first run both, the second
\* neither.
C2_Idempotence_AsStated == TwoRuns => OneDownloadOneWrite

\* C2: two runs in succession with the same cache path, the resolved artifact
\* unchanged, the cache file not holding the artifact's identifier before the
\* first run, and every network call and every local file operation of both
\* runs succeeding, perform exactly one download and one cache write, the
\* first run both, the second neither.
C2_Idempotence ==
  TwoRuns /\ ~prev.held /\ prev.error = None /\ proc.error = None
    => OneDownloadOneWrite

\* the second of two runs has ended without error; the first found a cache
\* file that held another text, and ended without error
C2_Witness ==
  /\ TwoRuns
  /\ inv = 2
  /\ ~prev.held /\ prev.error = None /\ proc.error = None
  /\ before.cache = File(Str(artifact.id))

(* -------------------------------- C3 ------------------------------------ *)

\* C3: every step that writes the cache file is taken after download_file
\* has returned for the resolved artifact, its stream read to the end and
\* the destination file closed, and writes str(artifact['id']); up to and
\* during the download the cache file is as the invocation found it.
C3_RecordAfterDownload ==
  [][ /\ (cacheFile' # cacheFile \/ did'.writes = did.writes + 1) =>
           /\ pc = "RECORD_CACHE"
           /\ dl.stage = "closed"
           /\ dl.stream = << >>
           /\ did.downloads = 1
           /\ files[dl.filename] = File(Payload(artifact.id))
           /\ cacheFile' = File(Str(artifact.id))
      /\ pc' \in {"RESOLVE_RUN", "RESOLVE_ARTIFACT", "CHECK_CACHE", "DOWNLOAD"} =>
           cacheFile' = before'.cache /\ did'.writes = 0
    ]_vars

\* an invocation has downloaded artifact 17 and replaced the cache file's
\* text by "17"
C3_Witness ==
  /\ pc = "DONE"
  /\ did.writes = 1
  /\ before.cache.exists
  /\ before.cache # cacheFile
  /\ cacheFile = File(<< "1", "7" >>)
  /\ artifact.id = 17

(* -------------------------------- C4 ------------------------------------ *)

\* the invocation ended with an error before an artifact was resolved
FailedBeforeDownload == pc \in {"NOT_FOUND", "FAIL"} /\ artifact = NoArtifact

\* C4: a failure aborts every later stage.  No run found: no artifact
\* listing requested, no download attempted, no cache write.  No artifact
\* found or a page fetch failed: no download attempted, no cache write.  The
\* download failed: the cache file is as the invocation found it.  Each of
\* them ends the process with exit code 1.
C4_FailureAborts ==
  /\ pc \in {"NOT_FOUND", "FAIL"} =>
       /\ proc.exit = 1
       /\ cacheFile = before.cache
       /\ did.writes = 0
  /\ proc.error = "No successful workflow run found" =>
       /\ pc = "NOT_FOUND"
       /\ net.run_artifacts = 0 /\ net.artifacts = 0
  /\ proc.error = "Artifact not found!" => pc = "NOT_FOUND"
  /\ FailedBeforeDownload =>
       /\ did.downloads = 0
       /\ net.download = 0
       /\ dl = NoDownload
       /\ files = before.files

\* the download failed with a part of the payload written, and the cache
\* file holds what it held before
C4_Witness ==
  /\ pc = "FAIL"
  /\ dl.stage = "copy"
  /\ files[dl.filename].data # << >>
  /\ CachePathSupplied
  /\ cacheFile.exists
  /\ cacheFile = before.cache

(* -------------------------------- C9 ------------------------------------ *)

\* C9: the step that decides on the skip goes to HIT if and only if a cache
\* path was supplied, the file exists and its content is, character for
\* character, str(artifact['id']); otherwise it goes on to the download.
C9_SkipDecision ==
  [][ pc = "CHECK_CACHE" =>
        /\ pc' = "HIT" <=> (CachePathSupplied /\ CacheHoldsId)
        /\ pc' = "DOWNLOAD" <=> ~(CachePathSupplied /\ CacheHoldsId)
    ]_vars

\* artifact 7 is downloaded although the cache file holds "7" and a newline
C9_Witness ==
  /\ pc = "DOWNLOAD"
  /\ CachePathSupplied
  /\ artifact.id = 7
  /\ cacheFile = File(<< "7", "\n" >>)

(* -------------------------------- C10 ----------------------------------- *)

\* C10: on a cache hit the process exits with 0, has called download_file
\* not once and opened no download url, and the destination files and the
\* cache file are as the invocation found them.
C10_HitFrame ==
  pc = "HIT" =>
    /\ proc.exit = 0
    /\ net.download = 0
    /\ did.downloads = 0
    /\ did.writes = 0
    /\ dl = NoDownload
    /\ files = before.files
    /\ cacheFile = before.cache

\* a cache hit of an invocation that found the destination file of the
\* resolved artifact in place
C10_Witness ==
  /\ pc = "HIT"
  /\ files[Filename].exists
  /\ files = before.files

(* -------------------------------- C11 ----------------------------------- *)

TokenError == "Please specify a GitHub personal access token"

\* neither --token nor GITHUB_TOKEN supplies a non-empty token
NoToken == ~Truthy(args.token) /\ ~Truthy(environ)

\* C11: with no non-empty token from --token or GITHUB_TOKEN, an invocation
\* is never anywhere but at its end in failure with the token error, exit
\* code 1, and has issued no request, resolved nothing, called download_file
\* not once and left the cache file and the destination files as it found
\* them; it never gets to the cache check, the one place a file is read.  The
\* token error is raised in no other case.
C11_NoToken ==
  /\ NoToken /\ pc # "START" =>
       /\ pc = "FAIL"
       /\ proc.error = TokenError
       /\ proc.exit = 1
       /\ net = NoRequests
       /\ did = Nothing
       /\ dl = NoDownload
       /\ run = NoRun /\ artifact = NoArtifact
       /\ files = before.files
       /\ cacheFile = before.cache
  /\ proc.error = TokenError => NoToken

\* an invocation with an empty --token and an empty GITHUB_TOKEN has failed
C11_Witness ==
  /\ pc = "FAIL"
  /\ proc.error = TokenError
  /\ args.token = ""
  /\ environ = ""

(* -------------------------------- C12 ----------------------------------- *)

\* download_file has returned and main has ended
DownloadedAndEnded == dl.stage = "closed" /\ pc \in Terminal

\* C12 as stated: once download_file has succeeded the invocation always
\* ends in DONE, with exit code 0, whatever becomes of the cache write.
C12_BestEffort_AsStated == DownloadedAndEnded => pc = "DONE" /\ proc.exit = 0

\* C12: once download_file has succeeded, the invocation ends in DONE with
\* exit code 0 and the path printed when no cache path was supplied or the
\* cache file was written with str(artifact['id']); when the write of the
\* cache file fails the error leaves main: the invocation ends in failure
\* with exit code 1 and no path printed.  Either way the destination file
\* holds the whole payload.
C12_RecordOrFail ==
  DownloadedAndEnded =>
    /\ files[dl.filename] = File(Payload(artifact.id))
    /\ \/ /\ pc = "DONE"
          /\ proc.exit = 0
          /\ proc.stdout = dl.filename
          /\ CachePathSupplied => did.writes = 1 /\ cacheFile = File(Str(artifact.id))
       \/ /\ pc = "FAIL"
          /\ proc.exit = 1
          /\ proc.stdout = None
          /\ proc.error = "OSError"
          /\ CachePathSupplied
          /\ did.writes = 0

\* the download succeeded, the write of the cache file failed, the invocation
\* has failed
C12_Witness ==
  /\ DownloadedAndEnded
  /\ pc = "FAIL"
  /\ proc.exit = 1

(* -------------------------------- C13 ----------------------------------- *)

\* the invocation has ended with a failure raised and no traceback requested
FailedQuietly == pc \in {"NOT_FOUND", "FAIL"} /\ proc.stderr = "Error: %s"

\* C13 as stated: every invocation that ends successfully, after a download
\* or on a cache hit, has printed the download path and exits with 0; every
\* invocation that failed with no traceback requested exits with 1.
C13_ExitCodes_AsStated ==
  /\ pc \in {"HIT", "DONE"} => proc.exit = 0 /\ proc.stdout = Filename
  /\ FailedQuietly => proc.exit = 1

\* C13: an invocation that ends after a download has printed the download
\* path and exits with 0; an invocation that ends on a cache hit exits with 0
\* and has printed no path; an invocation that failed exits with 1 and has
\* printed no path, with the one-line message or the traceback on stderr; an
\* invocation that ended exits with 0 only after a download or on a hit.
C13_ExitCodes ==
  /\ pc = "DONE" => proc.exit = 0 /\ proc.stdout = Filename /\ proc.stderr = None
  /\ pc = "HIT" => proc.exit = 0 /\ proc.stdout = None /\ proc.stderr = None
  /\ pc \in {"NOT_FOUND", "FAIL"} =>
       /\ proc.exit = 1
       /\ proc.stdout = None
       /\ proc.stderr \in {"Error: %s", "Traceback"}
  /\ pc \in Terminal /\ proc.exit = 0 => pc \in {"HIT", "DONE"}

\* a cache hit: exit code 0 and no path printed
C13_Witness ==
  /\ pc = "HIT"
  /\ proc.exit = 0
  /\ proc.stdout = None
  /\ inv = 1

(* -------------------------------- C14 ----------------------------------- *)

\* a bound on the steps a started invocation has left
StepsLeft ==
  CASE pc = "RESOLVE_RUN"      -> MaxChunks + 6
    [] pc = "RESOLVE_ARTIFACT" -> MaxChunks + 5
    [] pc = "CHECK_CACHE"      -> MaxChunks + 4
    [] pc = "DOWNLOAD"         -> IF dl.stage = "call" THEN MaxChunks + 3
                                  ELSE Len(dl.stream) + 2
    [] pc = "RECORD_CACHE"     -> 1
    [] OTHER                   -> 0

\* C14: the listings being finite chains of next links and the download
\* stream finite, every step of a started invocation brings it nearer to its
\* end, and every started invocation gets to one of NOT_FOUND, HIT, FAIL and
\* DONE.
C14_Terminates ==
  /\ [][ pc \notin Terminal \cup {"START"} => StepsLeft' < StepsLeft ]_vars
  /\ (pc \notin Terminal \cup {"START"}) ~> (pc \in Terminal)

\* an invocation ended after it fetched the pages of two listings and copied
\* a stream of more than one chunk
C14_Witness ==
  /\ pc = "DONE"
  /\ net.runs = 1 /\ net.run_artifacts = 1
  /\ Len(files[dl.filename].data) = MaxChunks

(* -------------------------------- C15 ----------------------------------- *)

\* C15: when download_file has returned, the destination file holds the
\* chunks of the remote stream, all of them, in their order, and nothing
\* else; the turn of the loop that reads the empty chunk writes nothing, and
\* nothing is written to the file after it by the invocation.
C15_DownloadContent ==
  [][ /\ dl'.stage = "closed" => files'[dl'.filename] = File(Payload(artifact'.id))
      /\ pc = "DOWNLOAD" /\ dl.stage = "copy" /\ dl.stream = << >> =>
           files' = files
      /\ dl.stage = "closed" /\ inv' = inv => files' = files
    ]_vars

\* download_file has returned having replaced a longer file by the one chunk
\* of artifact 7
C15_Witness ==
  /\ dl.stage = "closed"
  /\ artifact.id = 7
  /\ Len(before.files[dl.filename].data) > 1
  /\ files[dl.filename] = File(Payload(7))

(* -------------------------------- C16 ----------------------------------- *)

\* the remote stream failed while download_file was copying it
StreamFailed == pc = "FAIL" /\ dl.stage = "copy" /\ proc.error = "URLError"

\* C16: when the remote stream fails during the copy, the invocation ends
\* in failure and the destination file is there, holding the chunks written
\* before the failure and nothing else: with the chunks not yet read they
\* make up the payload.  What the file held before is not brought back.
C16_PartialFile ==
  StreamFailed =>
    /\ proc.exit = 1
    /\ files[dl.filename].exists
    /\ files[dl.filename].data \o dl.stream = Payload(artifact.id)

\* the stream of artifact 17 failed after its first chunk was written over
\* a file that held something else
C16_Witness ==
  /\ StreamFailed
  /\ artifact.id = 17
  /\ Len(files[dl.filename].data) = 1
  /\ before.files[dl.filename].exists
  /\ before.files[dl.filename].data # << >>

(* -------------------------------- C17 ----------------------------------- *)

\* download_file has opened the destination file
Copying == dl.stage \in {"copy", "closed"}

\* chunks written to the destination file by the running download
ChunksWritten == Len(files[dl.filename].data)

\* C17 as stated: with progress output the markers printed are as many as
\* the chunks written to the destination file, without it none is printed.
C17_Markers_AsStated ==
  Copying =>
    /\ dl.verbose /\ dl.stage = "closed" => dl.markers = ChunksWritten
    /\ ~dl.verbose => dl.markers = 0

\* C17: with progress output download_file prints one marker per read that
\* returns, the read of the empty chunk at the end of the stream included:
\* while it copies the markers are as many as the chunks written, one more
\* when the write of the chunk read last failed, and when it has returned
\* they are as many as the chunks written and one more.  Without progress
\* output it prints none.
C17_Markers ==
  Copying =>
    /\ ~dl.verbose => dl.markers = 0
    /\ dl.verbose /\ dl.stage = "closed" => dl.markers = ChunksWritten + 1
    /\ dl.verbose /\ dl.stage = "copy" =>
         dl.markers = ChunksWritten + (IF proc.error = "OSError" THEN 1 ELSE 0)

\* download_file has returned with progress output, having written the
\* chunks of a payload of more than one chunk
C17_Witness ==
  /\ dl.stage = "closed"
  /\ dl.verbose
  /\ ChunksWritten = MaxChunks
  /\ dl.markers = MaxChunks + 1

(* -------------------------------- C18 ----------------------------------- *)

\* download_file was called and the urlopen of the download url raised
OpenFailed ==
  /\ pc = "FAIL"
  /\ dl.stage = "call"
  /\ proc.error = "URLError"
  /\ net.download = 1

\* C18: when the download url cannot be opened, download_file raises with
\* the destination file neither created nor truncated: every destination
\* path holds what the invocation found there.
C18_OpenFailureFrame ==
  OpenFailed =>
    /\ proc.exit = 1
    /\ files = before.files

\* the download url could not be opened and the destination file still holds
\* the payload an earlier invocation wrote
C18_Witness ==
  /\ OpenFailed
  /\ files[dl.filename].exists
  /\ files[dl.filename].data # << >>
  /\ files[dl.filename].data # Payload(artifact.id)

(* -------------------------------- C19 ----------------------------------- *)

\* C19: an invocation calls each selector at most once.  With a workflow
\* filter it never asks for the repository's artifacts, asks for a run's
\* artifacts only after the run listing gave it a run, a successful one of
\* the wanted workflow and branch, and ends in NOT_FOUND when that run has no
\* matching artifact, having asked for the run listing once and for the
\* artifacts of one run.  Without a workflow filter it asks neither for the
\* run listing nor for a run's artifacts.
C19_OneRun ==
  /\ net.runs <= 1 /\ net.run_artifacts <= 1 /\ net.artifacts <= 1
  /\ Truthy(args.workflow) =>
       /\ net.artifacts = 0
       /\ net.run_artifacts <= net.runs
       /\ net.run_artifacts = 1 => run # NoRun /\ RunWanted(run, args.workflow, args.branch)
       /\ proc.error = "Artifact not found!" =>
            pc = "NOT_FOUND" /\ net.runs = 1 /\ net.run_artifacts = 1
  /\ ~Truthy(args.workflow) =>
       /\ net.runs = 0 /\ net.run_artifacts = 0
       /\ run = NoRun

\* with a workflow filter and an artifact name, the run resolved has no such
\* artifact and the invocation has ended in NOT_FOUND
C19_Witness ==
  /\ pc = "NOT_FOUND"
  /\ proc.error = "Artifact not found!"
  /\ Truthy(args.workflow)
  /\ Truthy(args.artifact)
  /\ run # NoRun
  /\ net.runs = 1 /\ net.run_artifacts = 1

(* -------------------------------- C20 ----------------------------------- *)

\* C20: the invocations using one cache path and one destination path, the
\* files touched by nobody else: whenever an invocation ends in a cache hit,
\* the cache file holds the resolved artifact's identifier and the
\* destination file holds that artifact's whole payload.
C20_HitHoldsPayload ==
  pc = "HIT" =>
    /\ cacheFile = File(Str(artifact.id))
    /\ files[Filename] = File(Payload(artifact.id))

=============================================================================
